---- MODULE Spec2Model ----
(***************************************************************************)
(* Model of the schedule page of ScheduleSystem: the list of schedules    *)
(* kept by SchedulerContext, and the handlers of pages/Schedules.tsx that  *)
(* generate, edit, publish and delete Echo Lab (lab-assignment) and        *)
(* On Call schedules.                                                      *)
(*                                                                         *)
(* call is the call of a method of utils/scheduleGenerator.ts under way:  *)
(* its arguments and, once it has returned, its result.                    *)
(*                                                                         *)
(* A Date is an integer number of ticks, TicksPerDay ticks to a calendar   *)
(* day; day 0 is a Sunday.  A date string "YYYY-MM-DD" is a day number.    *)
(***************************************************************************)
EXTENDS Integers, Sequences, FiniteSets, TLC

VARIABLES schedules, error, inflight, nextId, employees, locations, intervalThrows, clicks, call

vars == <<schedules, error, inflight, nextId, employees, locations, intervalThrows, clicks, call>>

(***************************************************************************)
(* Bounds of the model                                                     *)
(***************************************************************************)
TicksPerDay == 2
MaxGenerates == 3
MaxInflight == 1
MaxClicks == 3
MaxRow == 2
NumSeeds == 9

\* The dates the operator picks in the dialog: Sunday and Monday of one
\* week and the Sunday of the next, at midnight, and the Monday later in
\* the day (the picker's fallback is new Date(), the current instant).
DateInputs == {7 * TicksPerDay, 8 * TicksPerDay, 8 * TicksPerDay + 1, 14 * TicksPerDay}

\* The dates picked where the grids' contents are not what is checked: two
\* days of one calendar week.
LifecycleDates == {7 * TicksPerDay, 8 * TicksPerDay}

Seeds == 0 .. (NumSeeds - 1)

\* One seed is enough where the grids' contents are not what is checked.
LifecycleSeeds == {0}

(***************************************************************************)
(* Constants of pages/Schedules.tsx                                        *)
(***************************************************************************)
allDays == <<"Monday", "Tuesday", "Wednesday", "Thursday", "Friday">>

ON_CALL_DAYS == <<"Monday", "Tuesday", "Wednesday", "Thursday", "Friday", "Saturday">>

ON_CALL_LOCATIONS == <<"JDCH", "WM", "On Call Fetal">>

assignmentOptions == <<"Inpatients", "Cath/Inpat.", "OR/Inpat.", "Sedat./Inpat.", "MWH/MHM", "THC", "TX-Inpat.", "MPG-Fetal", "PTO", "N/A">>

NUM_DRAFT_SCHEDULES == 5

NUM_ONCALL_DRAFTS == 1

(***************************************************************************)
(* Helpers on sequences and dates                                          *)
(***************************************************************************)
Range(s) == {s[i] : i \in DOMAIN s}

\* Array.prototype.filter
SelectOut(s, x) == SelectSeq(s, LAMBDA y : y # x)

\* Date.prototype.setDate(getDate() + n): n calendar days later, same time of day
AddDays(date, n) == date + n * TicksPerDay

DayNumber(date) == date \div TicksPerDay

\* Date.prototype.getDay(): 0 is Sunday
GetDay(date) == DayNumber(date) % 7

\* parseISO of a date-only string: midnight of that day
ParseISO(dayNumber) == dayNumber * TicksPerDay

\* date-fns startOfWeek(date): midnight of the Sunday on or before date
StartOfWeek(date) == (DayNumber(date) - GetDay(date)) * TicksPerDay

\* date-fns startOfWeek(date, { weekStartsOn: 1 }): the Monday on or before date
StartOfWeekMonday(date) == (DayNumber(date) - ((GetDay(date) + 6) % 7)) * TicksPerDay

(***************************************************************************)
(* Employees and time-off requests (SchedulerContext.Employee)             *)
(***************************************************************************)
WeekDays == {"Monday", "Tuesday", "Wednesday", "Thursday", "Friday"}

Req(s, e, st) == [startDate |-> s, endDate |-> e, status |-> st]

Emp(n, r, d, t) == [name |-> n, role |-> r, days |-> d, timeOffRequests |-> t]

\* The request lists an employee of the snapshot may carry.  Day 9 is the
\* Tuesday and day 10 the Wednesday of the week of day 7.
TimeOffChoices ==
  { <<>>,
    <<Req(9, 9, "approved")>>,
    <<Req(10, 12, "approved")>>,
    <<Req(9, 9, "pending")>>,
    <<Req(9, 9, "denied"), Req(10, 10, "approved")>>,
    <<Req(10, 9, "approved")>> }

\* The employee list of the backend with the given request list for one of
\* the staff and none for the others.  Ana does not work on Fridays and Sam
\* is a student.
Snapshot(who, reqs) ==
  << Emp("Martha", "staff", WeekDays, IF who = "Martha" THEN reqs ELSE <<>>),
     Emp("Emilio", "staff", WeekDays, IF who = "Emilio" THEN reqs ELSE <<>>),
     Emp("Ana", "staff", WeekDays \ {"Friday"}, IF who = "Ana" THEN reqs ELSE <<>>),
     Emp("Sam", "student", WeekDays, <<>>) >>

GridSnapshots == {Snapshot(who, reqs) : who \in {"Martha", "Emilio", "Ana"}, reqs \in TimeOffChoices}

LifecycleSnapshots == {Snapshot("Emilio", <<Req(9, 9, "approved")>>)}

LocationChoices == {{"JDCH", "WM"}, {"WM"}}

(***************************************************************************)
(* hasApprovedTimeOff (Schedules.tsx 111-128)                              *)
(***************************************************************************)
\* date-fns isWithinInterval.  Version 2 throws a RangeError when the
\* interval's start is after its end; version 3 orders the two bounds.
\* The repository pins no version: strict tells which one is installed.
IsWithinInterval(date, start, end, strict) ==
  IF start > end
  THEN IF strict THEN "RangeError"
       ELSE IF end <= date /\ date <= start THEN "true" ELSE "false"
  ELSE IF start <= date /\ date <= end THEN "true" ELSE "false"

\* Array.prototype.some over timeOffRequests from index i on: stops at the
\* first request that yields true, and lets an exception through.
RECURSIVE SomeTimeOff(_, _, _, _)
SomeTimeOff(reqs, i, targetDate, strict) ==
  IF i > Len(reqs) THEN "false"
  ELSE IF reqs[i].status # "approved" THEN SomeTimeOff(reqs, i + 1, targetDate, strict)
  ELSE LET r == IsWithinInterval(targetDate, ParseISO(reqs[i].startDate), ParseISO(reqs[i].endDate), strict)
       IN IF r = "false" THEN SomeTimeOff(reqs, i + 1, targetDate, strict) ELSE r

hasApprovedTimeOff(employee, targetDate, strict) ==
  IF Len(employee.timeOffRequests) = 0 THEN "false"
  ELSE SomeTimeOff(employee.timeOffRequests, 1, targetDate, strict)

(***************************************************************************)
(* The dependency gate (Schedules.tsx 137-165)                             *)
(***************************************************************************)
isOnCallSchedulePublished(scheds, weekStart) ==
  \E i \in DOMAIN scheds :
    /\ scheds[i].status = "published"
    /\ scheds[i].type = "oncall"
    /\ scheds[i].weekStart = weekStart

\* The gate without the comparison of the week
canGenerateEchoLab_AnyWeek(scheds, weekStart) ==
  \E i \in DOMAIN scheds : scheds[i].status = "published" /\ scheds[i].type = "oncall"

canGenerateEchoLab(scheds, weekStart) == isOnCallSchedulePublished(scheds, weekStart)

NoError == [kind |-> "none", weekStart |-> 0]

\* No call of a function of utils/scheduleGenerator.ts has been made
NoCall == [fn |-> "none"]

\* The message names the week it was asked for.
getOnCallStatusMessage(scheds, weekStart) ==
  IF ~isOnCallSchedulePublished(scheds, weekStart)
  THEN [kind |-> "NoOnCallPublished", weekStart |-> weekStart]
  ELSE [kind |-> "OnCallPublished", weekStart |-> weekStart]

(***************************************************************************)
(* Building one Echo Lab grid (Schedules.tsx 219-298)                      *)
(***************************************************************************)
staffEmployees(emps) == SelectSeq(emps, LAMBDA emp : emp.role = "staff")

\* Math.floor(Math.random() * n) of the cell (employee e, day d) of draft i.
\* Every call may return any index below n; the draws of one request are
\* enumerated through the seed.
RandomIndex(seed, i, e, d, n) == (seed + i + 3 * e + d) % n

\* The date tested for the cell of allDays[d]: weekStart plus the index of the day
DayDate(weekStart, d) == AddDays(weekStart, d - 1)

\* getDateLabelsForWeek (lines 94-108): the calendar day that format(date,
\* 'M/d') prints in the column header of each day, counted from the Monday
\* on or before weekStart
getDateLabelsForWeek(weekStart) ==
  [day \in Range(allDays) |->
    LET index == CHOOSE k \in DOMAIN allDays : allDays[k] = day
    IN DayNumber(AddDays(StartOfWeekMonday(weekStart), index - 1))]

\* Lines 247-277 for employee number e of staff and day number d, given
\* the result of the time-off test.
CellAssignment(employee, d, hasTimeOff, rnd) ==
  LET day == allDays[d]
  IN IF hasTimeOff THEN "PTO"
     ELSE IF employee.name = "Martha"
          THEN IF day = "Tuesday" \/ day = "Friday"
               THEN "TX-Inpat."
               ELSE LET workOptions == SelectOut(assignmentOptions, "PTO")
                    IN workOptions[(rnd % Len(workOptions)) + 1]
     ELSE IF employee.name = "Emilio" /\ day # "Friday"
          THEN "THC"
     ELSE IF day = "Friday" /\ employee.name = "Emilio"
          THEN SelectOut(assignmentOptions, "THC")[(rnd % (Len(assignmentOptions) - 1)) + 1]
     ELSE LET workOptions == SelectOut(assignmentOptions, "PTO")
          IN workOptions[(rnd % Len(workOptions)) + 1]

\* An exception leaves the forEach loops when some cell's time-off test throws.
GridThrows(staff, weekStart, strict) ==
  \E e \in DOMAIN staff : \E d \in DOMAIN allDays :
    hasApprovedTimeOff(staff[e], DayDate(weekStart, d), strict) = "RangeError"

\* Lines 235-281: the grid before Rule 5
RuleAssignments(staff, weekStart, seed, i, strict) ==
  [name \in {staff[e].name : e \in DOMAIN staff} |->
    LET e == CHOOSE k \in DOMAIN staff : staff[k].name = name
    IN [day \in Range(allDays) |->
         LET d == CHOOSE k \in DOMAIN allDays : allDays[k] = day
         IN CellAssignment(staff[e], d,
                           hasApprovedTimeOff(staff[e], DayDate(weekStart, d), strict) = "true",
                           RandomIndex(seed, i, e, d, Len(assignmentOptions) - 1))]]

\* assignments?.[row]?.[day], undefined read as ''
Cell(assignments, row, day) ==
  IF row \in DOMAIN assignments /\ day \in DOMAIN assignments[row]
  THEN assignments[row][day]
  ELSE ""

\* schedules.find(...): the first published On Call schedule of the week
FindOnCallSchedule(scheds, weekStart) ==
  LET hits == {i \in DOMAIN scheds : /\ scheds[i].status = "published"
                                     /\ scheds[i].type = "oncall"
                                     /\ scheds[i].weekStart = weekStart}
  IN IF hits = {} THEN <<>>
     ELSE <<scheds[CHOOSE i \in hits : \A j \in hits : i <= j]>>

\* Rule 5 (lines 283-298): the person on JDCH call is OR/Inpat. that day
ApplyRule5(assignments, found) ==
  IF found = <<>> THEN assignments
  ELSE [name \in DOMAIN assignments |->
         [day \in DOMAIN assignments[name] |->
           IF Cell(found[1].assignments, "JDCH", day) = name
           THEN "OR/Inpat."
           ELSE assignments[name][day]]]

NewEchoLabSchedule(id, weekStart, assignments) ==
  [id |-> id, weekStart |-> weekStart, assignments |-> assignments,
   status |-> "draft", type |-> "echolab"]

\* Lines 233-311: the five drafts of one request
NewEchoLabSchedules(scheds, emps, weekStart, firstId, seed, strict) ==
  [i \in 1 .. NUM_DRAFT_SCHEDULES |->
    NewEchoLabSchedule(firstId + i - 1, weekStart,
      ApplyRule5(RuleAssignments(staffEmployees(emps), weekStart, seed, i - 1, strict),
                 FindOnCallSchedule(scheds, weekStart)))]

\* The filter that discards the published schedules of the type too
DiscardDrafts_AnyStatus(prev, type) == SelectSeq(prev, LAMBDA s : s.type # type)

\* The filter that keeps the old drafts
DiscardDrafts_KeepAll(prev, type) == prev

\* prev.filter(s => !(s.status === 'draft' && s.type === type))
DiscardDrafts(prev, type) ==
  SelectSeq(prev, LAMBDA s : ~(s.status = "draft" /\ s.type = type))

\* The operator's clicks are counted: a run has at most MaxGenerates clicks
\* on Generate and at most MaxClicks clicks on the rows of the list (publish,
\* delete, a cell menu).
Clicked(what, max) ==
  /\ clicks[what] < max
  /\ clicks' = [clicks EXCEPT ![what] = @ + 1]

(***************************************************************************)
(* handleGenerateSchedule, Echo Lab branch (Schedules.tsx 205-319, 364)    *)
(***************************************************************************)
\* The handler that discards the old drafts before it makes its checks
handleGenerateEchoLab_DiscardFirst(weekStart, seed) ==
  /\ Clicked("generate", MaxGenerates)
  /\ IF ~canGenerateEchoLab(schedules, weekStart)
     THEN /\ error' = getOnCallStatusMessage(schedules, weekStart)
          /\ schedules' = DiscardDrafts(schedules, "echolab")
          /\ UNCHANGED nextId
     ELSE IF "JDCH" \notin locations
     THEN /\ error' = [kind |-> "JDCHNotFound", weekStart |-> 0]
          /\ schedules' = DiscardDrafts(schedules, "echolab")
          /\ UNCHANGED nextId
     ELSE IF GridThrows(staffEmployees(employees), weekStart, intervalThrows)
     THEN /\ error' = [kind |-> "Exception", weekStart |-> 0]
          /\ schedules' = DiscardDrafts(schedules, "echolab")
          /\ UNCHANGED nextId
     ELSE /\ schedules' = DiscardDrafts(schedules, "echolab")
                            \o NewEchoLabSchedules(schedules, employees, weekStart, nextId, seed, intervalThrows)
          /\ nextId' = nextId + NUM_DRAFT_SCHEDULES
          /\ error' = NoError
  /\ UNCHANGED <<inflight, employees, locations, intervalThrows, call>>

handleGenerateEchoLab(weekStart, seed) ==
  /\ Clicked("generate", MaxGenerates)
  /\ IF ~canGenerateEchoLab(schedules, weekStart)
     THEN /\ error' = getOnCallStatusMessage(schedules, weekStart)
          /\ UNCHANGED <<schedules, nextId>>
     ELSE IF "JDCH" \notin locations
     THEN /\ error' = [kind |-> "JDCHNotFound", weekStart |-> 0]
          /\ UNCHANGED <<schedules, nextId>>
     ELSE IF GridThrows(staffEmployees(employees), weekStart, intervalThrows)
     THEN /\ error' = [kind |-> "Exception", weekStart |-> 0]
          /\ UNCHANGED <<schedules, nextId>>
     ELSE /\ schedules' = DiscardDrafts(schedules, "echolab")
                            \o NewEchoLabSchedules(schedules, employees, weekStart, nextId, seed, intervalThrows)
          /\ nextId' = nextId + NUM_DRAFT_SCHEDULES
          /\ error' = NoError
  /\ UNCHANGED <<inflight, employees, locations, intervalThrows, call>>

(***************************************************************************)
(* handleGenerateSchedule, On Call branch (Schedules.tsx 320-366)          *)
(***************************************************************************)
Pending(op, id, weekStart, snapshot) ==
  [op |-> op, id |-> id, weekStart |-> weekStart, snapshot |-> snapshot]

RemoveAt(s, k) == SubSeq(s, 1, k - 1) \o SubSeq(s, k + 1, Len(s))

\* The draft whose grid has a row for every entry of ON_CALL_LOCATIONS and
\* the first non-student employee in its JDCH row
NewOnCallSchedule_Seeded(id, weekStart) ==
  [id |-> id, weekStart |-> weekStart,
   assignments |->
     [loc \in Range(ON_CALL_LOCATIONS) |->
       [day \in Range(ON_CALL_DAYS) |->
         IF loc = "JDCH" /\ \E e \in DOMAIN employees : employees[e].role # "student"
         THEN employees[CHOOSE e \in DOMAIN employees : employees[e].role # "student"].name
         ELSE ""]],
   status |-> "draft", type |-> "oncall"]

NewOnCallSchedule(id, weekStart) ==
  [id |-> id, weekStart |-> weekStart,
   assignments |-> [loc \in {"JDCH", "WM"} |-> [day \in Range(ON_CALL_DAYS) |-> ""]],
   status |-> "draft", type |-> "oncall"]

\* Up to the await of the backend's generateSchedule mutation
handleGenerateOnCall(weekStart) ==
  /\ Clicked("generate", MaxGenerates)
  /\ inflight' = Append(inflight, Pending("generate", 0, weekStart, <<>>))
  /\ UNCHANGED <<schedules, error, nextId, employees, locations, intervalThrows, call>>

\* The mutation resolved: lines 329-362
generateOnCallResolved(k) ==
  /\ k \in DOMAIN inflight
  /\ inflight[k].op = "generate"
  /\ schedules' = Append(DiscardDrafts(schedules, "oncall"),
                         NewOnCallSchedule(nextId, inflight[k].weekStart))
  /\ nextId' = nextId + NUM_ONCALL_DRAFTS
  /\ error' = NoError
  /\ inflight' = RemoveAt(inflight, k)
  /\ UNCHANGED <<employees, locations, intervalThrows, call, clicks>>

\* The mutation rejected: the catch of line 364
generateOnCallRejected(k) ==
  /\ k \in DOMAIN inflight
  /\ inflight[k].op = "generate"
  /\ error' = [kind |-> "BackendError", weekStart |-> 0]
  /\ inflight' = RemoveAt(inflight, k)
  /\ UNCHANGED <<schedules, nextId, employees, locations, intervalThrows, call, clicks>>

(***************************************************************************)
(* handlePublishSchedule (Schedules.tsx 369-390)                           *)
(***************************************************************************)
HasId(scheds, id) == \E i \in DOMAIN scheds : scheds[i].id = id

ById(scheds, id) == scheds[CHOOSE i \in DOMAIN scheds : scheds[i].id = id]

\* The map that returns every schedule as it was
MarkPublished_KeepStatus(scheds, id) == scheds

\* schedules.map(s => s.id === scheduleId ? { ...s, status: 'published' } : s)
MarkPublished(scheds, id) ==
  [i \in DOMAIN scheds |->
    IF scheds[i].id = id THEN [scheds[i] EXCEPT !.status = "published"] ELSE scheds[i]]

\* Up to the await of the backend's publishSchedule mutation.  The publish
\* buttons are rendered for drafts only (lines 575-579 and 722-729).
handlePublishSchedule(id) ==
  /\ HasId(schedules, id)
  /\ ById(schedules, id).status = "draft"
  /\ inflight' = Append(inflight, Pending("publish", id, ById(schedules, id).weekStart, schedules))
  /\ Clicked("row", MaxClicks)
  /\ UNCHANGED <<schedules, error, nextId, employees, locations, intervalThrows, call>>

\* The mutation resolved: line 382 maps the list the handler was created with
publishResolved(k) ==
  /\ k \in DOMAIN inflight
  /\ inflight[k].op = "publish"
  /\ schedules' = MarkPublished(inflight[k].snapshot, inflight[k].id)
  /\ inflight' = RemoveAt(inflight, k)
  /\ UNCHANGED <<error, nextId, employees, locations, intervalThrows, call, clicks>>

\* The rejection after which the schedule is marked published all the same
publishRejected_Optimistic(k) ==
  /\ k \in DOMAIN inflight
  /\ inflight[k].op = "publish"
  /\ error' = [kind |-> "BackendError", weekStart |-> 0]
  /\ schedules' = MarkPublished(schedules, inflight[k].id)
  /\ inflight' = RemoveAt(inflight, k)
  /\ UNCHANGED <<nextId, employees, locations, intervalThrows, call, clicks>>

\* The mutation rejected: the catch of line 387
publishRejected(k) ==
  /\ k \in DOMAIN inflight
  /\ inflight[k].op = "publish"
  /\ error' = [kind |-> "BackendError", weekStart |-> 0]
  /\ inflight' = RemoveAt(inflight, k)
  /\ UNCHANGED <<schedules, nextId, employees, locations, intervalThrows, call, clicks>>

(***************************************************************************)
(* handleDeleteSchedule (Schedules.tsx 392-394)                            *)
(***************************************************************************)
\* The delete that leaves a published schedule in the list
handleDeleteSchedule_DraftsOnly(id) ==
  /\ HasId(schedules, id)
  /\ schedules' = SelectSeq(schedules, LAMBDA s : s.id # id \/ s.status = "published")
  /\ Clicked("row", MaxClicks)
  /\ UNCHANGED <<error, inflight, nextId, employees, locations, intervalThrows, call>>

\* The delete that removes every schedule of the target's type
handleDeleteSchedule_WholeType(id) ==
  /\ HasId(schedules, id)
  /\ schedules' = SelectSeq(schedules, LAMBDA s : s.type # ById(schedules, id).type)
  /\ Clicked("row", MaxClicks)
  /\ UNCHANGED <<error, inflight, nextId, employees, locations, intervalThrows, call>>

handleDeleteSchedule(id) ==
  /\ HasId(schedules, id)
  /\ schedules' = SelectSeq(schedules, LAMBDA s : s.id # id)
  /\ Clicked("row", MaxClicks)
  /\ UNCHANGED <<error, inflight, nextId, employees, locations, intervalThrows, call>>

(***************************************************************************)
(* handleOnCallAssignment and handleEchoLabAssignment (396-432)            *)
(***************************************************************************)
\* The update that writes the value into every day of the row
SetCell_WholeRow(assignments, row, day, value) ==
  [r \in DOMAIN assignments \cup {row} |->
    IF r = row
    THEN [d \in (IF row \in DOMAIN assignments THEN DOMAIN assignments[row] ELSE {}) \cup {day} |-> value]
    ELSE assignments[r]]

\* { ...assignments, [row]: { ...assignments[row], [day]: value } }
SetCell(assignments, row, day, value) ==
  [r \in DOMAIN assignments \cup {row} |->
    IF r = row
    THEN [d \in (IF row \in DOMAIN assignments THEN DOMAIN assignments[row] ELSE {}) \cup {day} |->
           IF d = day THEN value ELSE assignments[row][d]]
    ELSE assignments[r]]

EditCell(scheds, id, row, day, value) ==
  [i \in DOMAIN scheds |->
    IF scheds[i].id = id
    THEN [scheds[i] EXCEPT !.assignments = SetCell(scheds[i].assignments, row, day, value)]
    ELSE scheds[i]]

\* The cells and values the operator looks for in the On Call tables: a
\* row of ON_CALL_LOCATIONS, a day of ON_CALL_DAYS, an employee.  The menu
\* offers blank and the employees that are not students (lines 691-713).
OnCallEditInputs ==
  {<<"JDCH", "Monday", "Martha">>, <<"On Call Fetal", "Saturday", "Ana">>, <<"WM", "Tuesday", "Sam">>}

\* The menu that offers every employee
handleOnCallAssignment_AnyEmployee(id, location, day, employeeName) ==
  /\ HasId(schedules, id)
  /\ ById(schedules, id).type = "oncall"
  /\ location \in Range(ON_CALL_LOCATIONS)
  /\ day \in Range(ON_CALL_DAYS)
  /\ \/ employeeName = ""
     \/ \E e \in DOMAIN employees : employees[e].name = employeeName
  /\ schedules' = EditCell(schedules, id, location, day, employeeName)
  /\ Clicked("row", MaxClicks)
  /\ UNCHANGED <<error, inflight, nextId, employees, locations, intervalThrows, call>>

handleOnCallAssignment(id, location, day, employeeName) ==
  /\ HasId(schedules, id)
  /\ ById(schedules, id).type = "oncall"
  /\ location \in Range(ON_CALL_LOCATIONS)
  /\ day \in Range(ON_CALL_DAYS)
  /\ \/ employeeName = ""
     \/ \E e \in DOMAIN employees : employees[e].name = employeeName /\ employees[e].role # "student"
  /\ schedules' = EditCell(schedules, id, location, day, employeeName)
  /\ Clicked("row", MaxClicks)
  /\ UNCHANGED <<error, inflight, nextId, employees, locations, intervalThrows, call>>

\* The cells and values the operator picks in the Echo Lab tables: a row of
\* the grid, a day of ECHO_LAB_DAYS, blank or a label of the menu (606-630).
EchoLabEditInputs == {<<"Ana", "Monday", "">>}

handleEchoLabAssignment(id, employeeName, day, assignment) ==
  /\ HasId(schedules, id)
  /\ ById(schedules, id).type = "echolab"
  /\ employeeName \in DOMAIN ById(schedules, id).assignments
  /\ day \in Range(allDays)
  /\ assignment \in Range(assignmentOptions) \cup {""}
  /\ schedules' = EditCell(schedules, id, employeeName, day, assignment)
  /\ Clicked("row", MaxClicks)
  /\ UNCHANGED <<error, inflight, nextId, employees, locations, intervalThrows, call>>

(***************************************************************************)
(* The page: every handler from the state after the first render           *)
(***************************************************************************)
\* The schedules the operator clicks on: those of the first MaxRow rows of
\* the list.
Ids == {schedules[i].id : i \in DOMAIN schedules \cap (1 .. MaxRow)}

Init ==
  /\ schedules = <<>>
  /\ error = NoError
  /\ inflight = <<>>
  /\ nextId = 1
  /\ employees \in LifecycleSnapshots
  /\ intervalThrows = TRUE
  /\ call = NoCall
  /\ locations \in LocationChoices
  /\ clicks = [generate |-> 0, row |-> 0]

GenerateEchoLab == \E w \in LifecycleDates, seed \in LifecycleSeeds : handleGenerateEchoLab(w, seed)

GenerateOnCall ==
  \E w \in LifecycleDates : Len(inflight) < MaxInflight /\ handleGenerateOnCall(w)

GenerateOnCallResolved == \E k \in DOMAIN inflight : generateOnCallResolved(k)

GenerateOnCallRejected == \E k \in DOMAIN inflight : generateOnCallRejected(k)

Publish == \E id \in Ids : Len(inflight) < MaxInflight /\ handlePublishSchedule(id)

PublishResolved == \E k \in DOMAIN inflight : publishResolved(k)

PublishRejected == \E k \in DOMAIN inflight : publishRejected(k)

Delete == \E id \in Ids : handleDeleteSchedule(id)

EditOnCall == \E id \in Ids, c \in OnCallEditInputs : handleOnCallAssignment(id, c[1], c[2], c[3])

EditEchoLab == \E id \in Ids, c \in EchoLabEditInputs : handleEchoLabAssignment(id, c[1], c[2], c[3])

Next ==
  \/ GenerateEchoLab
  \/ GenerateOnCall
  \/ GenerateOnCallResolved
  \/ GenerateOnCallRejected
  \/ Publish
  \/ PublishResolved
  \/ PublishRejected
  \/ Delete
  \/ EditOnCall
  \/ EditEchoLab

Spec == Init /\ [][Next]_vars

(***************************************************************************)
(* The generators alone, from the states in which a week's On Call         *)
(* schedule has been generated, edited in one cell of its JDCH row and     *)
(* published, for every employee snapshot and both interval semantics.     *)
(***************************************************************************)
PublishedOnCall(id, weekStart, day, employeeName) ==
  [NewOnCallSchedule(id, weekStart) EXCEPT
     !.status = "published",
     !.assignments = SetCell(@, "JDCH", day, employeeName)]

HasInvertedRequest(emps) ==
  \E e \in DOMAIN emps : \E r \in DOMAIN emps[e].timeOffRequests :
    emps[e].timeOffRequests[r].startDate > emps[e].timeOffRequests[r].endDate

InitGrid ==
  /\ \E w \in DateInputs, day \in {"Monday", "Tuesday", "Friday"}, n \in {"", "Martha", "Emilio"} :
       schedules = <<PublishedOnCall(1, w, day, n)>>
  /\ error = NoError
  /\ inflight = <<>>
  /\ nextId = 2
  /\ employees \in GridSnapshots
  /\ locations \in LocationChoices
  /\ intervalThrows \in (IF HasInvertedRequest(employees) THEN BOOLEAN ELSE {TRUE})
  /\ call = NoCall
  /\ clicks = [generate |-> MaxGenerates - 2, row |-> 2]

GridGenerateEchoLab == \E w \in DateInputs, seed \in Seeds : handleGenerateEchoLab(w, seed)

\* The weeks asked for in the On Call dialog here: two Sundays a week
\* apart, which no week convention puts in one calendar week.
GridOnCallDates == {7 * TicksPerDay, 14 * TicksPerDay}

GridGenerateOnCall ==
  \E w \in GridOnCallDates : Len(inflight) < MaxInflight /\ handleGenerateOnCall(w)

NextGrid ==
  \/ GridGenerateEchoLab
  \/ GridGenerateOnCall
  \/ GenerateOnCallResolved
  \/ GenerateOnCallRejected

SpecGrid == InitGrid /\ [][NextGrid]_vars

(***************************************************************************)
(* Requests that overlap: the handlers from the state in which a week's    *)
(* On Call schedule is published and the five Echo Lab drafts of the week  *)
(* are installed, with up to MaxConcurrent backend calls in flight.        *)
(***************************************************************************)
MaxConcurrent == 2

\* The rows the operator clicks on here: the On Call schedule and the
\* first MaxRow drafts.
RaceIds == {schedules[i].id : i \in DOMAIN schedules \cap (1 .. MaxRow + 1)}

InitRace ==
  /\ employees \in LifecycleSnapshots
  /\ \E w \in LifecycleDates :
       LET onCall == <<PublishedOnCall(1, w, "Monday", "")>>
       IN schedules = onCall \o NewEchoLabSchedules(onCall, employees, w, 1 + NUM_ONCALL_DRAFTS, 0, TRUE)
  /\ error = NoError
  /\ inflight = <<>>
  /\ nextId = 1 + NUM_ONCALL_DRAFTS + NUM_DRAFT_SCHEDULES
  /\ locations = {"JDCH", "WM"}
  /\ intervalThrows = TRUE
  /\ call = NoCall
  /\ clicks = [generate |-> MaxGenerates - 1, row |-> 1]

RacePublish == \E id \in RaceIds : Len(inflight) < MaxConcurrent /\ handlePublishSchedule(id)

RaceDelete == \E id \in RaceIds : handleDeleteSchedule(id)

RaceEditEchoLab ==
  \E id \in RaceIds, c \in EchoLabEditInputs : handleEchoLabAssignment(id, c[1], c[2], c[3])

NextRace ==
  \/ RacePublish
  \/ PublishResolved
  \/ PublishRejected
  \/ RaceDelete
  \/ RaceEditEchoLab
  \/ GenerateEchoLab

SpecRace == InitRace /\ [][NextRace]_vars

(***************************************************************************)
(* The Time Off page (part_006): requests are submitted and edited, and    *)
(* the Schedules page generates from the employee list that carries them.  *)
(***************************************************************************)
MaxRequests == 1

\* The days picked in the request dialogs: a Tuesday and the Wednesday
\* after it.
TimeOffDays == {9, 10}

StatusChoices == {"pending", "approved", "denied"}

\* The employees picked in the dialogs: Martha and Emilio
TimeOffEmployees == {1, 2}

\* The backend's requestTimeOff mutation: the request is stored as pending
requestTimeOff(emps, e, startDate, endDate) ==
  [emps EXCEPT ![e].timeOffRequests = Append(@, Req(startDate, endDate, "pending"))]

\* The backend's updateTimeOff mutation: the request takes the input's
\* dates and the status
updateTimeOff(emps, e, r, startDate, endDate, status) ==
  [emps EXCEPT ![e].timeOffRequests[r] = Req(startDate, endDate, status)]

\* handleRequestTimeOff and handleConfirmRequest (75-113); error stands for
\* the page's submitError.
handleRequestTimeOff(e, startDate, endDate) ==
  /\ Clicked("row", MaxClicks)
  /\ IF startDate > endDate
     THEN /\ error' = [kind |-> "StartAfterEnd", weekStart |-> 0]
          /\ UNCHANGED employees
     ELSE /\ error' = NoError
          /\ employees' = requestTimeOff(employees, e, startDate, endDate)
  /\ UNCHANGED <<schedules, inflight, nextId, locations, intervalThrows, call>>

\* Save Changes of the edit dialog (441-467)
handleSaveChanges(e, r, startDate, endDate, status) ==
  /\ r \in DOMAIN employees[e].timeOffRequests
  /\ Clicked("row", MaxClicks)
  /\ error' = NoError
  /\ employees' = updateTimeOff(employees, e, r, startDate, endDate, status)
  /\ UNCHANGED <<schedules, inflight, nextId, locations, intervalThrows, call>>

InitTimeOff ==
  /\ schedules = <<PublishedOnCall(1, 8 * TicksPerDay, "Monday", "")>>
  /\ error = NoError
  /\ inflight = <<>>
  /\ nextId = 1 + NUM_ONCALL_DRAFTS
  /\ employees = Snapshot("Martha", <<>>)
  /\ locations = {"JDCH", "WM"}
  /\ intervalThrows \in BOOLEAN
  /\ call = NoCall
  /\ clicks = [generate |-> MaxGenerates - 1, row |-> 1]

RequestTimeOff ==
  \E e \in TimeOffEmployees, startDate \in TimeOffDays, endDate \in TimeOffDays :
    /\ Len(employees[e].timeOffRequests) < MaxRequests
    /\ handleRequestTimeOff(e, startDate, endDate)

SaveChanges ==
  \E e \in TimeOffEmployees, r \in 1 .. MaxRequests :
    \E startDate \in TimeOffDays, endDate \in TimeOffDays, status \in StatusChoices :
      handleSaveChanges(e, r, startDate, endDate, status)

NextTimeOff ==
  \/ RequestTimeOff
  \/ SaveChanges
  \/ GenerateEchoLab

SpecTimeOff == InitTimeOff /\ [][NextTimeOff]_vars

(***************************************************************************)
(* The earlier Schedules page (part_004) and utils/scheduleGenerator.ts:   *)
(* random Echo Lab grids by availability, random On Call grids, and        *)
(* publish without a backend call.                                         *)
(***************************************************************************)
ASSIGNMENT_POOL ==
  <<"Inpatients", "Cath/Inpat.", "OR/Inpat.", "Sedat./Inpat.", "MWH/MHM", "THC", "TX-Inpat.", "PTO", "N/A", "">>

\* DAYS_OF_WEEK of part_004
DAYS_OF_WEEK == <<"Monday", "Tuesday", "Wednesday", "Thursday", "Friday", "Saturday", "Sunday">>

\* format(date, 'EEEE')
getDayOfWeek(date) ==
  <<"Sunday", "Monday", "Tuesday", "Wednesday", "Thursday", "Friday", "Saturday">>[GetDay(date) + 1]

\* ScheduleGenerator.generateSchedule (188-215) of a generator constructed
\* with the employees and weekStart; i numbers the generator, e the employee.
generateSchedule(emps, weekStart, id, seed, i) ==
  LET start == StartOfWeek(weekStart)
      possibleAssignments == SelectOut(ASSIGNMENT_POOL, "")
  IN [id |-> id, weekStart |-> start,
      assignments |->
        [name \in {emps[e].name : e \in DOMAIN emps} |->
          LET e == CHOOSE k \in DOMAIN emps : emps[k].name = name
          IN [day \in {getDayOfWeek(AddDays(start, n)) : n \in 0 .. 6} |->
               LET n == CHOOSE k \in 0 .. 6 : getDayOfWeek(AddDays(start, k)) = day
               IN IF day \in emps[e].days
                  THEN possibleAssignments[RandomIndex(seed, i, e, n, Len(possibleAssignments)) + 1]
                  ELSE ""]],
      status |-> "draft", type |-> "echolab"]

\* [...array].sort(() => Math.random() - 0.5): some order of the array,
\* here the rotation by k
Shuffled(array, k) ==
  [j \in DOMAIN array |-> array[((j - 1 + k) % Len(array)) + 1]]

onCallEmployees(emps) == SelectSeq(emps, LAMBDA emp : emp.role # "student")

\* shuffled[idx % shuffled.length].name throws a TypeError when the array
\* is empty: the index is NaN and the element undefined.
LegacyOnCallThrows(emps) == Len(onCallEmployees(emps)) = 0

\* Lines 152-169 for draft number i
LegacyOnCallDraft(emps, weekStart, id, seed, i) ==
  LET shuffledJDCH == Shuffled(onCallEmployees(emps), seed + i)
      shuffledWM == Shuffled(onCallEmployees(emps), seed + i + 1)
  IN [id |-> id, weekStart |-> weekStart,
      assignments |->
        [loc \in {"JDCH", "WM"} |->
          [day \in Range(DAYS_OF_WEEK) |->
            LET idx == (CHOOSE k \in DOMAIN DAYS_OF_WEEK : DAYS_OF_WEEK[k] = day) - 1
            IN IF loc = "JDCH"
               THEN shuffledJDCH[(idx % Len(shuffledJDCH)) + 1].name
               ELSE shuffledWM[(idx % Len(shuffledWM)) + 1].name]],
      status |-> "draft", type |-> "oncall"]

\* handleGenerateSchedule of part_004, Echo Lab branch (130-148)
legacyGenerateEchoLab(weekStart, seed) ==
  /\ Clicked("generate", MaxGenerates)
  /\ IF "JDCH" \notin locations
     THEN /\ error' = [kind |-> "JDCHNotFound", weekStart |-> 0]
          /\ UNCHANGED <<schedules, nextId>>
     ELSE /\ schedules' = DiscardDrafts(schedules, "echolab")
                            \o [i \in 1 .. NUM_DRAFT_SCHEDULES |->
                                 generateSchedule(employees, weekStart, nextId + i - 1, seed, i - 1)]
          /\ nextId' = nextId + NUM_DRAFT_SCHEDULES
          /\ error' = NoError
  /\ UNCHANGED <<inflight, employees, locations, intervalThrows, call>>

\* handleGenerateSchedule of part_004, On Call branch (149-179)
legacyGenerateOnCall(weekStart, seed) ==
  /\ Clicked("generate", MaxGenerates)
  /\ IF LegacyOnCallThrows(employees)
     THEN /\ error' = [kind |-> "Exception", weekStart |-> 0]
          /\ UNCHANGED <<schedules, nextId>>
     ELSE /\ schedules' = DiscardDrafts(schedules, "oncall")
                            \o [i \in 1 .. NUM_DRAFT_SCHEDULES |->
                                 LegacyOnCallDraft(employees, weekStart, nextId + i - 1, seed, i - 1)]
          /\ nextId' = nextId + NUM_DRAFT_SCHEDULES
          /\ error' = NoError
  /\ UNCHANGED <<inflight, employees, locations, intervalThrows, call>>

\* handlePublishSchedule of part_004 (182-188); the button is shown for drafts
legacyPublishSchedule(id) ==
  /\ HasId(schedules, id)
  /\ ById(schedules, id).status = "draft"
  /\ schedules' = MarkPublished(schedules, id)
  /\ Clicked("row", MaxClicks)
  /\ UNCHANGED <<error, inflight, nextId, employees, locations, intervalThrows, call>>

\* The employee lists of the backend: the usual one, one of students only
\* and the empty one.
LegacySnapshots ==
  {Snapshot("Martha", <<>>), <<Emp("Sam", "student", WeekDays, <<>>)>>, <<>>}

InitLegacy ==
  /\ schedules = <<>>
  /\ error = NoError
  /\ inflight = <<>>
  /\ nextId = 1
  /\ employees \in LegacySnapshots
  /\ intervalThrows = TRUE
  /\ call = NoCall
  /\ locations \in LocationChoices
  /\ clicks = [generate |-> 0, row |-> 0]

LegacyGenerateEchoLab ==
  \E w \in LifecycleDates, seed \in LifecycleSeeds : legacyGenerateEchoLab(w, seed)

LegacyGenerateOnCall ==
  \E w \in LifecycleDates, seed \in LifecycleSeeds : legacyGenerateOnCall(w, seed)

LegacyPublish == \E id \in Ids : legacyPublishSchedule(id)

LegacyDelete == \E id \in Ids : handleDeleteSchedule(id)

NextLegacy ==
  \/ LegacyGenerateEchoLab
  \/ LegacyGenerateOnCall
  \/ LegacyPublish
  \/ LegacyDelete

SpecLegacy == InitLegacy /\ [][NextLegacy]_vars

(***************************************************************************)
(* The methods of ScheduleGenerator (utils/scheduleGenerator.ts) as        *)
(* functions of their arguments and of the draws of Math.random.  An       *)
(* optional value is a sequence: <<>> for null or undefined, <<v>> for v.  *)
(***************************************************************************)
MaxShifts == 2

NumShuffles == 6

SHIFT_HOURS == [morning |-> 8, afternoon |-> 8, night |-> 8]

SHIFT_TIMES == [morning |-> "6AM-2PM", afternoon |-> "2PM-10PM", night |-> "10PM-6AM"]

\* interface Employee
GenEmployee(id, name, days, maxHoursPerDay, preferredShifts) ==
  [id |-> id, name |-> name,
   availability |-> [days |-> days, maxHoursPerDay |-> maxHoursPerDay,
                     preferredShifts |-> preferredShifts]]

\* interface Shift
Shift(employeeId, date, shiftType) ==
  [employeeId |-> employeeId, date |-> date, shiftType |-> shiftType]

RECURSIVE Factorial(_)
Factorial(n) == IF n <= 1 THEN 1 ELSE n * Factorial(n - 1)

\* Math.floor(Math.random() * (i + 1)) of the shuffle's step i: the draws
\* of one shuffle are the digits of rnd, which gives every combination of
\* draws of an array of up to three elements.
Draw(rnd, i) == (rnd \div Factorial(i)) % (i + 1)

\* [arr[i], arr[j]] = [arr[j], arr[i]], on indices from 0
Swap(arr, i, j) ==
  [k \in DOMAIN arr |-> IF k = i + 1 THEN arr[j + 1] ELSE IF k = j + 1 THEN arr[i + 1] ELSE arr[k]]

\* The loop of shuffleArray from index i down to 1
RECURSIVE ShuffleFrom(_, _, _)
ShuffleFrom(arr, i, rnd) ==
  IF i <= 0 THEN arr ELSE ShuffleFrom(Swap(arr, i, Draw(rnd, i)), i - 1, rnd)

shuffleArray(array, rnd) == ShuffleFrom(array, Len(array) - 1, rnd)

\* date-fns isSameDay
isSameDay(d1, d2) == DayNumber(d1) = DayNumber(d2)

\* `${shiftType} (${SHIFT_TIMES[shiftType]})`
ShiftLabel(shiftType) == shiftType \o " (" \o SHIFT_TIMES[shiftType] \o ")"

isEmployeeAvailable(employee, date, shiftType) ==
  /\ getDayOfWeek(date) \in employee.availability.days
  /\ ShiftLabel(shiftType) \in employee.availability.preferredShifts

getEmployeeShiftCount(employee, shifts) ==
  Len(SelectSeq(shifts, LAMBDA shift : shift.employeeId = employee.id))

\* Array.prototype.reduce with the sum of the hours, from 0
RECURSIVE SumHours(_)
SumHours(shifts) ==
  IF shifts = <<>> THEN 0 ELSE SHIFT_HOURS[Head(shifts).shiftType] + SumHours(Tail(shifts))

getEmployeeHoursForDay(employee, date, shifts) ==
  SumHours(SelectSeq(shifts, LAMBDA shift : shift.employeeId = employee.id /\ isSameDay(shift.date, date)))

\* previousWeekSchedule is the generator's fourth constructor argument
hadShiftLastWeek(previousWeekSchedule, employee, date, shiftType) ==
  IF previousWeekSchedule = <<>> THEN FALSE
  ELSE LET lastWeekDate == AddDays(date, -7)
           dayOfWeek == getDayOfWeek(lastWeekDate)
           lastWeekShifts == previousWeekSchedule[1].shifts[dayOfWeek][shiftType]
       IN employee.name \in Range(lastWeekShifts)

\* The score that counts the shifts the employee has, not those it lacks
EmployeeScore_MoreShiftsFirst(previousWeekSchedule, employee, date, shiftType, currentShifts) ==
  (IF ~hadShiftLastWeek(previousWeekSchedule, employee, date, shiftType) THEN 3 ELSE 0)
  + getEmployeeShiftCount(employee, currentShifts) * 2
  + (IF getEmployeeHoursForDay(employee, date, currentShifts) < employee.availability.maxHoursPerDay
     THEN 2 ELSE 0)
  + (IF shiftType \in employee.availability.preferredShifts THEN 1 ELSE 0)

\* The body of the map of lines 167-182
EmployeeScore(previousWeekSchedule, employee, date, shiftType, currentShifts) ==
  (IF ~hadShiftLastWeek(previousWeekSchedule, employee, date, shiftType) THEN 3 ELSE 0)
  + (5 - getEmployeeShiftCount(employee, currentShifts)) * 2
  + (IF getEmployeeHoursForDay(employee, date, currentShifts) < employee.availability.maxHoursPerDay
     THEN 2 ELSE 0)
  + (IF shiftType \in employee.availability.preferredShifts THEN 1 ELSE 0)

\* Array.prototype.sort((a, b) => b.score - a.score): descending by score
\* and stable, by insertion from the right
RECURSIVE InsertByScore(_, _)
InsertByScore(x, sorted) ==
  IF sorted = <<>> THEN <<x>>
  ELSE IF Head(sorted).score > x.score
       THEN <<Head(sorted)>> \o InsertByScore(x, Tail(sorted))
       ELSE <<x>> \o sorted

RECURSIVE SortByScore(_)
SortByScore(scored) ==
  IF scored = <<>> THEN <<>> ELSE InsertByScore(Head(scored), SortByScore(Tail(scored)))

findBestEmployeeForShift(emps, previousWeekSchedule, date, shiftType, currentShifts, rnd) ==
  LET availableEmployees == SelectSeq(emps, LAMBDA employee : isEmployeeAvailable(employee, date, shiftType))
  IN IF Len(availableEmployees) = 0 THEN <<>>
     ELSE LET shuffledEmployees == shuffleArray(availableEmployees, rnd)
              scoredEmployees ==
                [k \in DOMAIN shuffledEmployees |->
                  [employee |-> shuffledEmployees[k],
                   score |-> EmployeeScore(previousWeekSchedule, shuffledEmployees[k], date, shiftType, currentShifts)]]
          IN <<SortByScore(scoredEmployees)[1].employee>>

\* interface Schedule, the fields generateRandomOnCallAssignments reads
ShiftSchedule(locationName, shifts) == [locationName |-> locationName, shifts |-> shifts]

\* The first occurrences of the elements of a sequence, in order (the
\* insertion order of a Set)
RECURSIVE Unique(_)
Unique(s) ==
  IF s = <<>> THEN <<>>
  ELSE <<Head(s)>> \o Unique(SelectSeq(Tail(s), LAMBDA x : x # Head(s)))

\* The names of a schedule in the order the three forEach loops of lines
\* 229-233 visit them; Object.values gives the days in the order the object
\* was built, taken here as that of DAYS_OF_WEEK.
RECURSIVE NamesFrom(_, _)
NamesFrom(shifts, d) ==
  IF d > Len(DAYS_OF_WEEK) THEN <<>>
  ELSE (IF DAYS_OF_WEEK[d] \in DOMAIN shifts
        THEN shifts[DAYS_OF_WEEK[d]].morning \o shifts[DAYS_OF_WEEK[d]].afternoon
               \o shifts[DAYS_OF_WEEK[d]].night
        ELSE <<>>)
       \o NamesFrom(shifts, d + 1)

\* The week that gives every day the first employee and leaves the other
\* days of a short list without anyone
WeekOnCall_NoCycle(shuffled) ==
  [i \in 1 .. 7 |-> IF i <= Len(shuffled) THEN shuffled[i] ELSE ""]

\* Array(7).fill('').map((_, i) => shuffled[i % shuffled.length] || ''):
\* with an empty array the index is NaN and the element undefined
WeekOnCall(shuffled) ==
  [i \in 1 .. 7 |->
    IF Len(shuffled) = 0 THEN ""
    ELSE shuffled[((i - 1) % Len(shuffled)) + 1]]

\* The body of the forEach over locationNames for the k-th name; every
\* location has its own shuffle
OnCallOfLocation(scheds, locationName, rnd) ==
  LET found == SelectSeq(scheds, LAMBDA s : s.locationName = locationName)
  IN IF found = <<>> THEN [i \in 1 .. 7 |-> ""]
     ELSE WeekOnCall(shuffleArray(Unique(NamesFrom(found[1].shifts, 1)), rnd))

generateRandomOnCallAssignments(scheds, locationNames, rnd) ==
  [locationName \in Range(locationNames) |->
    LET k == CHOOSE j \in DOMAIN locationNames :
               locationNames[j] = locationName
               /\ \A h \in DOMAIN locationNames : locationNames[h] = locationName => h <= j
    IN OnCallOfLocation(scheds, locationName, rnd + k - 1)]

(***************************************************************************)
(* The calls of the two methods: the arguments are drawn at the start and  *)
(* each call returns once.                                                 *)
(***************************************************************************)
AllDaysOfWeek == Range(DAYS_OF_WEEK)

\* The employees the generator is constructed with
GenEmployees ==
  LET martha == GenEmployee("1", "Martha", AllDaysOfWeek, 8, {"morning (6AM-2PM)", "morning"})
      emilio == GenEmployee("2", "Emilio", AllDaysOfWeek, 16, {"morning (6AM-2PM)"})
      ana == GenEmployee("3", "Ana", {"Tuesday"}, 8, {"morning (6AM-2PM)", "afternoon (2PM-10PM)"})
  IN {<<martha, emilio, ana>>, <<ana, emilio>>, <<ana>>, <<>>}

\* A schedule of the week before in which who had the Tuesday morning shift
PreviousWeek(who) ==
  [shifts |->
    [day \in AllDaysOfWeek |->
      [morning |-> IF day = "Tuesday" THEN <<who>> ELSE <<>>,
       afternoon |-> <<>>,
       night |-> <<>>]]]

PreviousWeekChoices == {<<>>, <<PreviousWeek("Martha")>>, <<PreviousWeek("Emilio")>>}

\* The shifts currentShifts is made of
ShiftChoices ==
  {Shift("1", 8 * TicksPerDay, "morning"), Shift("1", 9 * TicksPerDay, "afternoon"),
   Shift("2", 9 * TicksPerDay, "morning"), Shift("3", 9 * TicksPerDay, "night")}

CurrentShiftsChoices == UNION {[1 .. n -> ShiftChoices] : n \in 0 .. MaxShifts}

\* A Monday at midnight and the Tuesday after it, later in the day
ShiftDates == {8 * TicksPerDay, 9 * TicksPerDay + 1}

FindBestCalls ==
  [fn : {"findBestEmployeeForShift"}, employees : GenEmployees,
   previousWeekSchedule : PreviousWeekChoices, date : ShiftDates,
   shiftType : {"morning", "afternoon"}, currentShifts : CurrentShiftsChoices,
   rnd : 0 .. (NumShuffles - 1), returned : {FALSE}, result : {<<>>}]

FindBestEmployeeForShift ==
  /\ call.fn = "findBestEmployeeForShift"
  /\ ~call.returned
  /\ call' = [call EXCEPT
       !.returned = TRUE,
       !.result = findBestEmployeeForShift(call.employees, call.previousWeekSchedule, call.date,
                                           call.shiftType, call.currentShifts, call.rnd)]
  /\ UNCHANGED <<schedules, error, inflight, nextId, employees, locations, intervalThrows, clicks>>

\* The people a location's schedule may name
OnCallStaff == <<"Martha", "Emilio", "Ana", "Lee", "Kim", "Joe", "Eve", "Max">>

\* The week of a location in which the first n of OnCallStaff work: the
\* k-th has the morning of the k-th day, the first of them every
\* afternoon, and the eighth the night of the first day
StaffedWeek(locationName, n) ==
  ShiftSchedule(locationName,
    [day \in AllDaysOfWeek |->
      LET k == CHOOSE j \in DOMAIN DAYS_OF_WEEK : DAYS_OF_WEEK[j] = day
      IN [morning |-> IF k <= n THEN <<OnCallStaff[k]>> ELSE <<>>,
          afternoon |-> IF n > 0 THEN <<OnCallStaff[1]>> ELSE <<>>,
          night |-> IF k = 1 /\ n > Len(DAYS_OF_WEEK) THEN <<OnCallStaff[Len(OnCallStaff)]>> ELSE <<>>]])

StaffCounts == {0, 2, 3, Len(DAYS_OF_WEEK), Len(OnCallStaff)}

ShiftScheduleChoices ==
  {<<>>} \cup {<<StaffedWeek("JDCH", n)>> : n \in StaffCounts}
         \cup {<<StaffedWeek("WM", n), StaffedWeek("JDCH", 2), StaffedWeek("WM", 2)>> : n \in StaffCounts}

LocationNameChoices == {<<"JDCH", "WM">>, <<"WM", "JDCH", "WM">>, <<"On Call Fetal">>, <<>>}

OnCallCalls ==
  [fn : {"generateRandomOnCallAssignments"}, schedules : ShiftScheduleChoices,
   locationNames : LocationNameChoices, rnd : 0 .. (NumShuffles - 1),
   returned : {FALSE}, result : {<<>>}]

GenerateRandomOnCallAssignments ==
  /\ call.fn = "generateRandomOnCallAssignments"
  /\ ~call.returned
  /\ call' = [call EXCEPT
       !.returned = TRUE,
       !.result = generateRandomOnCallAssignments(call.schedules, call.locationNames, call.rnd)]
  /\ UNCHANGED <<schedules, error, inflight, nextId, employees, locations, intervalThrows, clicks>>

InitGenerator ==
  /\ schedules = <<>>
  /\ error = NoError
  /\ inflight = <<>>
  /\ nextId = 1
  /\ employees = <<>>
  /\ locations = {}
  /\ intervalThrows = TRUE
  /\ clicks = [generate |-> 0, row |-> 0]
  /\ call \in FindBestCalls \cup OnCallCalls

NextGenerator ==
  \/ FindBestEmployeeForShift
  \/ GenerateRandomOnCallAssignments

SpecGenerator == InitGenerator /\ [][NextGenerator]_vars

(***************************************************************************)
(* Vocabulary of the properties                                            *)
(***************************************************************************)
EchoLabSchedules == {s \in Range(schedules) : s.type = "echolab"}

DraftsOf(scheds, weekStart, type) ==
  {s \in Range(scheds) : s.status = "draft" /\ s.type = type /\ s.weekStart = weekStart}

IdsOf(scheds) == {s.id : s \in Range(scheds)}

DraftIds(scheds, weekStart, type) == {s.id : s \in DraftsOf(scheds, weekStart, type)}

StaffNamed(name) ==
  CHOOSE emp \in Range(employees) : emp.name = name /\ emp.role = "staff"

\* The calendar day of the week beginning at weekStart whose weekday is day
DateOfWeekday(weekStart, day) ==
  LET n == CHOOSE k \in 1 .. 5 : allDays[k] = day
  IN CHOOSE dn \in DayNumber(weekStart) .. (DayNumber(weekStart) + 6) : dn % 7 = n

\* Some approved request of the employee covers the calendar day
OnApprovedLeave(emp, dn) ==
  \E r \in DOMAIN emp.timeOffRequests :
    /\ emp.timeOffRequests[r].status = "approved"
    /\ emp.timeOffRequests[r].startDate <= dn
    /\ dn <= emp.timeOffRequests[r].endDate

\* A Generate request for the Echo Lab failed for one of its three reasons
EchoLabFails(weekStart) ==
  \/ ~isOnCallSchedulePublished(schedules, weekStart)
  \/ "JDCH" \notin locations
  \/ \E e \in DOMAIN employees : \E d \in 1 .. 5 :
       /\ employees[e].role = "staff"
       /\ hasApprovedTimeOff(employees[e], AddDays(weekStart, d - 1), intervalThrows) = "RangeError"

(***************************************************************************)
(* Lifecycle properties                                                    *)
(***************************************************************************)

\* C1: for every (week-start, schedule type) pair, whatever Generate,
\* Publish, Edit-cell and Delete operations have run, at most one schedule
\* with that week-start and type has status published.
C1_PublishExclusivity ==
  \A i, j \in DOMAIN schedules :
    ( /\ schedules[i].status = "published"
      /\ schedules[j].status = "published"
      /\ schedules[i].weekStart = schedules[j].weekStart
      /\ schedules[i].type = schedules[j].type ) => i = j

C6_RegenerationSupersedes ==
  [][ /\ \A w \in DateInputs, seed \in LifecycleSeeds :
           (nextId' # nextId /\ ~EchoLabFails(w) /\ handleGenerateEchoLab(w, seed))
             => /\ Cardinality(DraftsOf(schedules', w, "echolab")) = NUM_DRAFT_SCHEDULES
                /\ DraftIds(schedules', w, "echolab") \cap IdsOf(schedules) = {}
      /\ \A k \in DOMAIN inflight :
           generateOnCallResolved(k)
             => /\ Cardinality(DraftsOf(schedules', inflight[k].weekStart, "oncall")) = NUM_ONCALL_DRAFTS
                /\ DraftIds(schedules', inflight[k].weekStart, "oncall") \cap IdsOf(schedules) = {} ]_vars

\* Two Echo Lab requests for the week of the only On Call schedule have
\* succeeded one after the other, and the drafts are those of the second.
C6_Witness ==
  /\ nextId = 2 + 2 * NUM_DRAFT_SCHEDULES
  /\ Cardinality({s \in Range(schedules) : s.type = "oncall"}) = 1
  /\ Cardinality(EchoLabSchedules) = NUM_DRAFT_SCHEDULES
  /\ \A s \in EchoLabSchedules : s.status = "draft" /\ s.id >= 2 + NUM_DRAFT_SCHEDULES

\* C7: a Generate request that fails (gate not met, JDCH location missing,
\* exception while the grids are built, backend call rejected) reports an
\* error and leaves the schedule list as it was.
C7_FailedGenerateChangesNothing ==
  [][ /\ \A w \in DateInputs :
           EchoLabFails(w) =>
             \A seed \in Seeds :
               handleGenerateEchoLab(w, seed)
                 => schedules' = schedules /\ error'.kind \notin {"none", "OnCallPublished"}
      /\ \A k \in DOMAIN inflight :
           generateOnCallRejected(k)
             => schedules' = schedules /\ error'.kind \notin {"none", "OnCallPublished"} ]_vars

\* A request failed on an exception while an On Call draft generated before
\* it is still in the list.
C7_Witness ==
  /\ error.kind = "Exception"
  /\ \E s \in Range(schedules) : s.type = "oncall" /\ s.status = "draft"
  /\ \E s \in Range(schedules) : s.type = "oncall" /\ s.status = "published"

\* C11: a step changes the status of a schedule only from draft to
\* published, and only when it is the completion of a Publish of that
\* schedule; no step returns a published schedule to draft.
C11_StatusOnlyByPublish ==
  [][\A i \in DOMAIN schedules : \A j \in DOMAIN schedules' :
       (schedules[i].id = schedules'[j].id /\ schedules[i].status # schedules'[j].status)
         => /\ schedules[i].status = "draft"
            /\ schedules'[j].status = "published"
            /\ \E k \in DOMAIN inflight :
                 publishResolved(k) /\ inflight[k].id = schedules[i].id ]_vars

\* C12: the completion of Publish(id) leaves every draft that has the
\* week-start and type of schedule id, other than id itself, in the list as
\* it was.
C12_PublishKeepsSiblings ==
  [][\A k \in DOMAIN inflight :
       publishResolved(k) =>
         \A i \in DOMAIN schedules :
           ( /\ schedules[i].id # inflight[k].id
             /\ schedules[i].status = "draft"
             /\ schedules[i].weekStart = inflight[k].weekStart
             /\ schedules[i].type = ById(inflight[k].snapshot, inflight[k].id).type )
             => schedules[i] \in Range(schedules') ]_vars

\* C21: the completion of a Publish changes only the status of its target:
\* the list after it is the list before it with the target marked published,
\* so that whatever a Generate, an Edit-cell or a Delete did while the
\* Publish was waiting for the backend is still there.
C21_PublishAppliesToCurrentList ==
  [][\A k \in DOMAIN inflight :
       publishResolved(k) => schedules' = MarkPublished(schedules, inflight[k].id) ]_vars

\* Two dates that lie in different calendar weeks under the week that begins
\* on Sunday and under the week that begins on Monday
OtherWeek(d1, d2) ==
  /\ StartOfWeek(d1) # StartOfWeek(d2)
  /\ StartOfWeekMonday(d1) # StartOfWeekMonday(d2)

\* C22: a Generate for (week-start W, type T) leaves every draft whose
\* week-start lies in another week than W in the list as it was.  A step
\* that draws ids is a Generate that succeeded, and W is the week-start of
\* the schedule it put last in the list.
C22_GenerateKeepsOtherWeeks ==
  [][ nextId' # nextId =>
        LET w == schedules'[Len(schedules')].weekStart
        IN \A i \in DOMAIN schedules :
             (schedules[i].status = "draft" /\ OtherWeek(schedules[i].weekStart, w))
               => schedules[i] \in Range(schedules') ]_vars

\* C24: the gate is decided by the list as it is.  The Delete of the only
\* published On Call schedule of week W closes the gate for W and leaves the
\* Echo Lab schedules in the list as they were; an Echo Lab Generate for W
\* made while Echo Lab schedules of W exist and no On Call schedule of W is
\* published is refused and changes no schedule.
C24_GateFollowsDelete ==
  [][ /\ (clicks'.row # clicks.row /\ inflight' = inflight) =>
           \A id \in Ids :
             ( /\ handleDeleteSchedule(id)
               /\ ById(schedules, id).type = "oncall"
               /\ ById(schedules, id).status = "published"
               /\ \A s \in Range(schedules) :
                    (s.type = "oncall" /\ s.status = "published"
                       /\ s.weekStart = ById(schedules, id).weekStart) => s.id = id )
               => /\ ~canGenerateEchoLab(schedules', ById(schedules, id).weekStart)
                  /\ SelectSeq(schedules', LAMBDA s : s.type = "echolab")
                       = SelectSeq(schedules, LAMBDA s : s.type = "echolab")
      /\ clicks'.generate # clicks.generate =>
           \A w \in DateInputs :
             ( /\ ~isOnCallSchedulePublished(schedules, w)
               /\ \E s \in EchoLabSchedules : s.weekStart = w )
               => \A seed \in LifecycleSeeds :
                    handleGenerateEchoLab(w, seed)
                      => /\ schedules' = schedules
                         /\ error' = [kind |-> "NoOnCallPublished", weekStart |-> w] ]_vars

\* The published On Call schedule of a week was deleted after the five Echo
\* Lab drafts of the week were generated, and the next Echo Lab request for
\* the week was refused: the five drafts are the whole list.
C24_Witness ==
  /\ error.kind = "NoOnCallPublished"
  /\ Len(schedules) = NUM_DRAFT_SCHEDULES
  /\ \A s \in Range(schedules) : s.type = "echolab" /\ s.weekStart = error.weekStart
  /\ clicks.generate = MaxGenerates

\* C25: a Generate that succeeds leaves the published schedules in the list
\* as they were and in their order, those of its own week-start and type
\* included, and what it adds are drafts.  A step that draws ids is a
\* Generate that succeeded.
C25_GenerateKeepsPublished ==
  [][ nextId' # nextId =>
        /\ SelectSeq(schedules', LAMBDA s : s.status = "published")
             = SelectSeq(schedules, LAMBDA s : s.status = "published")
        /\ \A s \in Range(schedules') : s.id \notin IdsOf(schedules) => s.status = "draft" ]_vars

\* An Echo Lab draft of a week was published and the Echo Lab drafts of the
\* same week were generated again: the published one is in the list with the
\* five new drafts of its week-start and type.
C25_Witness ==
  \E p \in EchoLabSchedules :
    /\ p.status = "published"
    /\ Cardinality({d \in DraftsOf(schedules, p.weekStart, "echolab") : d.id > p.id + NUM_DRAFT_SCHEDULES - 1})
         = NUM_DRAFT_SCHEDULES

\* C26: when the backend rejects the publish call of schedule id, an error
\* is reported and the list is as it was, with id, a draft until then,
\* still a draft; and a Publish of an id that no schedule of the list has
\* takes no step at all.
C26_FailedPublishChangesNothing ==
  [][ inflight' # inflight =>
        /\ \A k \in DOMAIN inflight :
             publishRejected(k)
               => /\ schedules' = schedules
                  /\ error'.kind \notin {"none", "OnCallPublished"}
                  /\ (HasId(schedules, inflight[k].id) /\ ById(schedules, inflight[k].id).status = "draft")
                       => ById(schedules', inflight[k].id).status = "draft"
        /\ \A id \in (1 .. nextId) \ IdsOf(schedules) : ~ENABLED handlePublishSchedule(id) ]_vars

\* The one On Call draft was generated and its publish call was rejected:
\* the draft is in the list as generated, and the error is the backend's.
C26_Witness ==
  /\ error.kind = "BackendError"
  /\ inflight = <<>>
  /\ clicks = [generate |-> 1, row |-> 1]
  /\ \E w \in LifecycleDates : schedules = <<NewOnCallSchedule(1, w)>>

\* The rows and days a grid may have
GridRows == Range(ON_CALL_LOCATIONS) \cup {employees[e].name : e \in DOMAIN employees}

GridDays == Range(ON_CALL_DAYS)

\* Schedule id has value in its cell (row, day) and is otherwise as it was,
\* and so is every other schedule.
OneCellSet(id, row, day, value) ==
  /\ Len(schedules') = Len(schedules)
  /\ \A i \in DOMAIN schedules :
       IF schedules[i].id # id
       THEN schedules'[i] = schedules[i]
       ELSE /\ schedules'[i].id = id
            /\ schedules'[i].status = schedules[i].status
            /\ schedules'[i].weekStart = schedules[i].weekStart
            /\ schedules'[i].type = schedules[i].type
            /\ Cell(schedules'[i].assignments, row, day) = value
            /\ \A r \in GridRows \cup DOMAIN schedules'[i].assignments : \A d \in GridDays :
                 <<r, d>> # <<row, day>>
                   => Cell(schedules'[i].assignments, r, d) = Cell(schedules[i].assignments, r, d)

\* C13: an Edit-cell of a draft or of a published schedule sets the cell
\* (subject, day) of that schedule to the value and leaves the schedule's
\* status, week-start, type and other cells, and every other schedule, as
\* they were.
C13_EditSetsOneCell ==
  [][ (clicks'.row # clicks.row /\ inflight' = inflight /\ Len(schedules') = Len(schedules)) =>
        \A id \in Ids :
          /\ \A c \in OnCallEditInputs :
               handleOnCallAssignment(id, c[1], c[2], c[3]) => OneCellSet(id, c[1], c[2], c[3])
          /\ \A c \in EchoLabEditInputs :
               handleEchoLabAssignment(id, c[1], c[2], c[3]) => OneCellSet(id, c[1], c[2], c[3]) ]_vars

\* The only On Call schedule was given Martha for JDCH on Monday after it
\* was published (an Echo Lab draft generated from it does not have Martha
\* in OR/Inpat. on Monday), and a draft has had a cell blanked.
C13_Witness ==
  /\ nextId = 1 + NUM_ONCALL_DRAFTS + NUM_DRAFT_SCHEDULES
  /\ \E s \in Range(schedules) :
       /\ s.type = "oncall"
       /\ s.status = "published"
       /\ Cell(s.assignments, "JDCH", "Monday") = "Martha"
  /\ \E s \in EchoLabSchedules :
       /\ s.status = "draft"
       /\ s.assignments["Martha"]["Monday"] # "OR/Inpat."
       /\ s.assignments["Ana"]["Monday"] = ""

\* C14: a Delete of a draft or of a published schedule removes that
\* schedule and leaves every other schedule, siblings of the same week-start
\* and type included, in the list as it was and in the same order.
C14_DeleteRemovesOne ==
  [][ (clicks'.row # clicks.row /\ Len(schedules') < Len(schedules)) =>
        \A id \in IdsOf(schedules) :
          handleDeleteSchedule(id)
            => /\ id \notin IdsOf(schedules')
               /\ Len(schedules') = Len(schedules) - 1
               /\ \A i \in DOMAIN schedules :
                    schedules[i].id # id => schedules[i] \in Range(schedules')
               /\ \A i, j \in DOMAIN schedules' :
                    i < j => \E a, b \in DOMAIN schedules :
                               a < b /\ schedules[a] = schedules'[i] /\ schedules[b] = schedules'[j] ]_vars

\* The published On Call schedule and one of the five Echo Lab drafts that
\* were generated from it have been deleted; the four siblings remain.
C14_Witness ==
  /\ nextId = 1 + NUM_ONCALL_DRAFTS + NUM_DRAFT_SCHEDULES
  /\ \A s \in Range(schedules) : s.type = "echolab" /\ s.status = "draft"
  /\ Cardinality(EchoLabSchedules) = NUM_DRAFT_SCHEDULES - 1
  /\ inflight = <<>>

\* C15: the week-start of every schedule is the first day of its calendar
\* week, for the week that begins on Sunday (date-fns default) or for the
\* week that begins on Monday (the column headers), one convention for all
\* schedules.
C15_WeekStartNormalized ==
  \/ \A s \in Range(schedules) : s.weekStart = StartOfWeek(s.weekStart)
  \/ \A s \in Range(schedules) : s.weekStart = StartOfWeekMonday(s.weekStart)

\* C19: an On Call Generate for week-start W whose backend call succeeds
\* adds one schedule, a draft of type On Call with week-start W whose grid
\* is blank in the rows JDCH and WM on Monday to Saturday and has no other
\* cell, and it is then the only On Call draft of W; this also when no
\* schedule is published.
C19_OnCallGenerateBlank ==
  [][\A k \in DOMAIN inflight :
       (nextId' # nextId /\ generateOnCallResolved(k)) =>
         LET added == {s \in Range(schedules') : s.id \notin IdsOf(schedules)}
         IN /\ Cardinality(added) = 1
            /\ DraftsOf(schedules', inflight[k].weekStart, "oncall") = added
            /\ \A s \in added :
                 /\ s.type = "oncall"
                 /\ s.status = "draft"
                 /\ s.weekStart = inflight[k].weekStart
                 /\ s.assignments =
                      [loc \in {"JDCH", "WM"} |->
                        [day \in {"Monday", "Tuesday", "Wednesday", "Thursday", "Friday", "Saturday"} |-> ""]] ]_vars

\* An On Call request succeeded from the empty list, with nothing
\* published: the list is the one blank draft.
C19_Witness ==
  /\ Len(schedules) = 1
  /\ nextId = 1 + NUM_ONCALL_DRAFTS
  /\ schedules[1].type = "oncall"
  /\ schedules[1].status = "draft"
  /\ \A loc \in {"JDCH", "WM"} : \A day \in Range(ON_CALL_DAYS) :
       Cell(schedules[1].assignments, loc, day) = ""

C17_NoCandidateIsNotAnError ==
  [][ clicks'.generate # clicks.generate =>
        LET added == {s \in Range(schedules') : s.id \notin IdsOf(schedules)}
        IN \A w \in LifecycleDates : \A seed \in LifecycleSeeds :
             /\ ("JDCH" \in locations /\ legacyGenerateEchoLab(w, seed))
                  => /\ error' = NoError
                     /\ Cardinality(added) = NUM_DRAFT_SCHEDULES
                     /\ \A s \in added : \A e \in DOMAIN employees : \A day \in Range(DAYS_OF_WEEK) :
                          day \notin employees[e].days
                            => Cell(s.assignments, employees[e].name, day) = ""
             /\ legacyGenerateOnCall(w, seed)
                  => /\ error' = NoError
                     /\ Cardinality(added) = NUM_DRAFT_SCHEDULES
                     /\ onCallEmployees(employees) = <<>>
                          => \A s \in added : \A loc \in {"JDCH", "WM"} : \A day \in Range(DAYS_OF_WEEK) :
                               Cell(s.assignments, loc, day) = "" ]_vars

\* C18: no time-off request of the employee list has its start date after
\* its end date, whatever requests were submitted and edited.
C18_NoInvertedRequest ==
  \A e \in DOMAIN employees : \A r \in DOMAIN employees[e].timeOffRequests :
    employees[e].timeOffRequests[r].startDate <= employees[e].timeOffRequests[r].endDate

(***************************************************************************)
(* Properties of the generated Echo Lab grids                              *)
(***************************************************************************)

\* C16: for every staff employee and every date that was tested for a cell
\* of a generated Echo Lab draft, hasApprovedTimeOff is true exactly when
\* an approved request of the employee has start <= date <= end as
\* calendar days.
C16_HasApprovedTimeOff ==
  \A s \in EchoLabSchedules : \A e \in DOMAIN employees : \A d \in DOMAIN allDays :
    employees[e].role = "staff" =>
      ( hasApprovedTimeOff(employees[e], DayDate(s.weekStart, d), intervalThrows) = "true"
          <=> OnApprovedLeave(employees[e], DayNumber(DayDate(s.weekStart, d))) )

\* C23: for every cell (employee, weekday d) of a generated Echo Lab draft,
\* the date tested against the employee's approved leave falls on weekday d
\* and is the date the column header of d shows, for a week-start on a
\* Sunday as well as for one on a Monday.
C23_TestedDateIsHeaderDate ==
  \A s \in EchoLabSchedules : \A d \in DOMAIN allDays :
    /\ GetDay(DayDate(s.weekStart, d)) = d
    /\ DayNumber(DayDate(s.weekStart, d)) = getDateLabelsForWeek(s.weekStart)[allDays[d]]

\* C27: in every generated Echo Lab draft, no employee's Friday cell is THC.
C27_NoTHCOnFriday ==
  \A s \in EchoLabSchedules : \A name \in DOMAIN s.assignments :
    s.assignments[name]["Friday"] # "THC"

\* C28: in every generated Echo Lab draft, no employee other than Martha has
\* TX-Inpat. in a Tuesday or a Friday cell.
C28_TxInpatOnlyMartha ==
  \A s \in EchoLabSchedules : \A name \in DOMAIN s.assignments : \A day \in {"Tuesday", "Friday"} :
    s.assignments[name][day] = "TX-Inpat." => name = "Martha"

\* C4: in every generated Echo Lab draft, the cell of an employee on a day
\* whose date an approved time-off request of the employee covers is PTO.
C4_LeavePrecedence ==
  \A s \in EchoLabSchedules : \A name \in DOMAIN s.assignments : \A day \in Range(allDays) :
    OnApprovedLeave(StaffNamed(name), DateOfWeekday(s.weekStart, day))
      => s.assignments[name][day] = "PTO"

\* C5: in every generated Echo Lab draft, Martha's Tuesday and Friday cells
\* are TX-Inpat. and Emilio's Monday to Thursday cells are THC, except on a
\* day on which the employee has approved leave.
C5_ForcingRules ==
  \A s \in EchoLabSchedules : \A name \in DOMAIN s.assignments : \A day \in Range(allDays) :
    ~OnApprovedLeave(StaffNamed(name), DateOfWeekday(s.weekStart, day))
      => /\ (name = "Martha" /\ day \in {"Tuesday", "Friday"}) => s.assignments[name][day] = "TX-Inpat."
         /\ (name = "Emilio" /\ day # "Friday") => s.assignments[name][day] = "THC"

\* C8: in every generated Echo Lab draft, a cell that is neither empty nor
\* PTO lies on a day of the employee's available weekdays.
C8_EligibilityContainment ==
  \A s \in EchoLabSchedules : \A name \in DOMAIN s.assignments : \A day \in Range(allDays) :
    s.assignments[name][day] \notin {"", "PTO"} => day \in StaffNamed(name).days

\* C9: in every generated Echo Lab draft, a cell is PTO only if an approved
\* time-off request of the employee covers the date of the cell.
C9_NoRandomPTO ==
  \A s \in EchoLabSchedules : \A name \in DOMAIN s.assignments : \A day \in Range(allDays) :
    s.assignments[name][day] = "PTO"
      => OnApprovedLeave(StaffNamed(name), DateOfWeekday(s.weekStart, day))

\* C10: in every generated Echo Lab draft of week w, the cell of the
\* employee whom the published On Call schedule of w names for JDCH on a day
\* is OR/Inpat. on that day, and PTO when the employee has approved leave
\* on that day.
C10_OnCallCrossRule ==
  \A s \in EchoLabSchedules : \A name \in DOMAIN s.assignments : \A day \in Range(allDays) :
    ( /\ FindOnCallSchedule(schedules, s.weekStart) # <<>>
      /\ Cell(FindOnCallSchedule(schedules, s.weekStart)[1].assignments, "JDCH", day) = name )
      => s.assignments[name][day] =
           IF OnApprovedLeave(StaffNamed(name), DateOfWeekday(s.weekStart, day))
           THEN "PTO" ELSE "OR/Inpat."

(***************************************************************************)
(* Properties of the methods of ScheduleGenerator                          *)
(***************************************************************************)
\* The employees of the call that may take the shift of the call
EligibleEmployees ==
  {emp \in Range(call.employees) :
     /\ getDayOfWeek(call.date) \in emp.availability.days
     /\ ShiftLabel(call.shiftType) \in emp.availability.preferredShifts}

\* The score of the scoring rule for an employee of the call
RuleScore(emp) ==
  LET held == /\ call.previousWeekSchedule # <<>>
              /\ \E k \in DOMAIN call.previousWeekSchedule[1].shifts[getDayOfWeek(call.date)][call.shiftType] :
                   call.previousWeekSchedule[1].shifts[getDayOfWeek(call.date)][call.shiftType][k] = emp.name
      count == Cardinality({k \in DOMAIN call.currentShifts : call.currentShifts[k].employeeId = emp.id})
      today == {k \in DOMAIN call.currentShifts :
                  /\ call.currentShifts[k].employeeId = emp.id
                  /\ DayNumber(call.currentShifts[k].date) = DayNumber(call.date)}
      hours == 8 * Cardinality(today)
  IN (IF held THEN 0 ELSE 3)
     + (5 - count) * 2
     + (IF hours < emp.availability.maxHoursPerDay THEN 2 ELSE 0)
     + (IF call.shiftType \in emp.availability.preferredShifts THEN 1 ELSE 0)

\* The shuffle that precedes the scoring
ShuffledEligible ==
  shuffleArray(SelectSeq(call.employees, LAMBDA emp : emp \in EligibleEmployees), call.rnd)

NamedIn(locationName) ==
  LET hits == {k \in DOMAIN call.schedules : call.schedules[k].locationName = locationName}
  IN IF hits = {} THEN {}
     ELSE LET s == call.schedules[CHOOSE k \in hits : \A j \in hits : k <= j]
          IN UNION {Range(s.shifts[day].morning) \cup Range(s.shifts[day].afternoon)
                      \cup Range(s.shifts[day].night) : day \in DOMAIN s.shifts}

\* C30: generateRandomOnCallAssignments returns seven entries for every
\* location name asked for; all are '' when the location has no schedule or
\* its schedule names nobody; otherwise each entry is an employee the
\* location's schedule names, the entries repeat with the period n, the
\* number of distinct employees, and with n >= 7 nobody is named twice.
C30_RandomOnCallAssignments ==
  (call.fn = "generateRandomOnCallAssignments" /\ call.returned) =>
    /\ DOMAIN call.result = Range(call.locationNames)
    /\ \A loc \in Range(call.locationNames) :
         LET week == call.result[loc]
             n == Cardinality(NamedIn(loc))
         IN /\ Len(week) = 7
            /\ n = 0 => \A i \in 1 .. 7 : week[i] = ""
            /\ n > 0 =>
                 /\ \A i \in 1 .. 7 : week[i] \in NamedIn(loc)
                 /\ \A i \in 1 .. 7 : i + n <= 7 => week[i] = week[i + n]
                 /\ n >= 7 => \A i, j \in 1 .. 7 : week[i] = week[j] => i = j

\* A call returned the weeks of two locations, one whose schedule names at
\* least seven employees and one whose schedule names two.
C30_Witness ==
  /\ call.fn = "generateRandomOnCallAssignments"
  /\ call.returned
  /\ \E loc \in Range(call.locationNames) : Cardinality(NamedIn(loc)) >= 7
  /\ \E loc \in Range(call.locationNames) :
       /\ Cardinality(NamedIn(loc)) = 2
       /\ call.result[loc][1] # call.result[loc][2]
       /\ call.result[loc][1] = call.result[loc][7]

====
